---- MODULE Spec2Model ----
(***************************************************************************)
(* Model of the multi-array memory-layout descriptor of src/src/layout.h   *)
(* (Layout / LayoutImpl) and of the client programs that use it            *)
(* (src/src/test_alignment.cpp, src/src/test_serialize.cpp).               *)
(*                                                                         *)
(* Array indices are zero-based as in the source; TLA+ sequences are       *)
(* one-based, so array N of the source is entry N + 1 of a sequence.       *)
(***************************************************************************)
EXTENDS Integers, Naturals, Sequences, FiniteSets, TLC

VARIABLES
    elems,      \* Elements...: the element-type list of the instantiated Layout
    size_,      \* LayoutImpl::size_: the counts the descriptor was built with
    pc,         \* "unresolved" | "defined" | "built" | "aborted"
    ret,        \* the value returned by the last query of the descriptor
    prev,       \* Offsets() of the descriptor this one was refined from
    buf,        \* the backing buffer: the byte at each address of the block
    cl          \* the local variables of the client that uses the buffer

vars == <<elems, size_, pc, ret, prev, buf, cl>>

\* the variables of the clients that read and write a buffer
client == <<buf, cl>>

(***************************************************************************)
(* Bounds of the model.                                                    *)
(***************************************************************************)
\* size_t is SizeBits bits wide: every size_t operation wraps modulo 2^SizeBits.
SizeBits == 12
\* A Layout has at most MaxTypes element types.
MaxTypes == 3
\* Every count passed to Partial() / Layout() is at most MaxCount.
MaxCount == 1

SizeMod == 2 ^ SizeBits
SIZE_MAX == SizeMod - 1
Wrap(x) == x % SizeMod

(***************************************************************************)
(* size_t bit operations.                                                  *)
(***************************************************************************)
RECURSIVE BitAndRec(_, _, _)
BitAndRec(a, b, k) ==
    IF k = 0 THEN 0
    ELSE (a % 2) * (b % 2) + 2 * BitAndRec(a \div 2, b \div 2, k - 1)

\* a & b on size_t
BitAnd(a, b) == BitAndRec(a, b, SizeBits)

\* ~a that also clears the top bit of size_t
BitNot_Half(a) == (SizeMod \div 2 - 1) - a

\* ~a on size_t
BitNot(a) == SIZE_MAX - a

(***************************************************************************)
(* Element types.  A natural type is [name, size, align, aligned |-> FALSE]*)
(* and Aligned<T, N> is the same record with aligned |-> TRUE, n |-> N.    *)
(***************************************************************************)
NaturalType(nm, sz, al) ==
    [name |-> nm, size |-> sz, align |-> al, aligned |-> FALSE, n |-> 0]

\* template <class T, size_t N> struct Aligned;
Aligned(t, N) == [t EXCEPT !.aligned = TRUE, !.n = N]

TChar == NaturalType("char", 1, 1)
TInt == NaturalType("int", 4, 4)
TFloat == NaturalType("float", 4, 4)
TDouble == NaturalType("double", 8, 8)
TSizeT == NaturalType("size_t", 8, 8)

\* Type<T>::type: the underlying element type
Type(e) == e.name

\* SizeOf<Aligned<T, N>> taking the override for the element size
SizeOf_Override(e) == IF e.aligned THEN e.n ELSE e.size

\* SizeOf<T>::value
SizeOf(e) == e.size

\* AlignOf<Aligned<T, N>> ignoring the override
AlignOf_Natural(e) == e.align

\* AlignOf<T>::value
AlignOf(e) == IF e.aligned THEN e.n ELSE e.align

\* the static_assert inside AlignOf<Aligned<T, N>>
AlignOfAssert(e) == e.aligned => (e.n % e.align = 0)

\* constexpr bool IsPow2(size_t n) { return !(n & (n - 1)); }
IsPow2(n) == BitAnd(n, Wrap(n - 1)) = 0

\* IsLegalElementType<T> (references and volatile types are not modelled)
IsLegalElementType(e) == AlignOfAssert(e) /\ IsPow2(AlignOf(e))

\* Align with the rounding term off by one: (n + m) & ~(m - 1)
Align_OffByOne(n, m) == BitAnd(Wrap(n + m), BitNot(Wrap(m - 1)))

\* Align rounding down to a multiple of m
Align_Down(n, m) == BitAnd(n, BitNot(Wrap(m - 1)))

\* constexpr size_t Align(size_t n, size_t m) { return (n + m - 1) & ~(m - 1); }
Align(n, m) == BitAnd(Wrap(n + m - 1), BitNot(Wrap(m - 1)))

\* constexpr size_t Min(size_t a, size_t b) { return b < a ? b : a; }
Min(a, b) == IF b < a THEN b ELSE a

\* Max with the comparison the wrong way round
RECURSIVE Max_Flipped(_)
Max_Flipped(s) ==
    IF Len(s) = 1 THEN s[1]
    ELSE Max_Flipped(<<(IF s[1] < s[2] THEN s[1] ELSE s[2])>> \o SubSeq(s, 3, Len(s)))

\* constexpr size_t Max(size_t a) / Max(size_t a, size_t b, Ts... rest)
RECURSIVE Max(_)
Max(s) ==
    IF Len(s) = 1 THEN s[1]
    ELSE Max(<<(IF s[2] < s[1] THEN s[1] ELSE s[2])>> \o SubSeq(s, 3, Len(s)))

(***************************************************************************)
(* LayoutImpl<std::tuple<Elements...>, SizeSeq, OffsetSeq>                 *)
(***************************************************************************)
NumTypes(ts) == Len(ts)
NumSizes(sz) == Len(sz)

\* NumOffsets without the array that follows the known counts
NumOffsets_NoExtra(ts, sz) == Min(NumTypes(ts), NumSizes(sz))

\* LayoutType: NumOffsets = Min(sizeof...(Ts), NumSizes + 1)
NumOffsets(ts, sz) == Min(NumTypes(ts), NumSizes(sz) + 1)

\* the static_asserts of Layout / LayoutImpl on the element-type list
LayoutAssert(ts) ==
    /\ Len(ts) > 0
    /\ \A i \in 1..Len(ts) : IsLegalElementType(ts[i])

\* static constexpr size_t Alignment()
Alignment(ts) == Max([i \in 1..Len(ts) |-> AlignOf(ts[i])])

\* Offset aligned for the element type of the previous array
RECURSIVE Offset_PrevAlign(_, _, _)
Offset_PrevAlign(ts, sz, N) ==
    IF N = 0 THEN 0
    ELSE Align(Wrap(Offset_PrevAlign(ts, sz, N - 1) + Wrap(SizeOf(ts[N]) * sz[N])),
               AlignOf(ts[N]))

\* Offset that aligns the array after the last known count to Alignment()
RECURSIVE Offset_Tail(_, _, _)
Offset_Tail(ts, sz, N) ==
    IF N = 0 THEN 0
    ELSE Align(Wrap(Offset_Tail(ts, sz, N - 1) + Wrap(SizeOf(ts[N]) * sz[N])),
               IF N = Len(sz) THEN Alignment(ts) ELSE AlignOf(ts[N + 1]))

\* Offset<N>() multiplying by the last known count instead of the count of N - 1
RECURSIVE Offset_LastCount(_, _, _)
Offset_LastCount(ts, sz, N) ==
    IF N = 0 THEN 0
    ELSE Align(Wrap(Offset_LastCount(ts, sz, N - 1) + Wrap(SizeOf(ts[N]) * sz[Len(sz)])),
               AlignOf(ts[N + 1]))

\* Offset<N>() advancing by the element size of array N instead of N - 1
RECURSIVE Offset_OwnSize(_, _, _)
Offset_OwnSize(ts, sz, N) ==
    IF N = 0 THEN 0
    ELSE Align(Wrap(Offset_OwnSize(ts, sz, N - 1) + Wrap(SizeOf(ts[N + 1]) * sz[N])),
               AlignOf(ts[N + 1]))

\* template <size_t N> constexpr size_t Offset() const
RECURSIVE Offset(_, _, _)
Offset(ts, sz, N) ==
    IF N = 0 THEN 0
    ELSE Align(Wrap(Offset(ts, sz, N - 1) + Wrap(SizeOf(ts[N]) * sz[N])),
               AlignOf(ts[N + 1]))

\* constexpr std::array<size_t, NumOffsets> Offsets() const
Offsets(ts, sz) == [i \in 1..NumOffsets(ts, sz) |-> Offset(ts, sz, i - 1)]

\* AllocSize rounded up to Alignment()
AllocSize_Padded(ts, sz) ==
    Align(Wrap(Offset(ts, sz, NumTypes(ts) - 1)
               + Wrap(SizeOf(ts[NumTypes(ts)]) * sz[NumTypes(ts)])),
          Alignment(ts))

\* constexpr size_t AllocSize() const
AllocSize(ts, sz) ==
    Wrap(Offset(ts, sz, NumTypes(ts) - 1)
         + Wrap(SizeOf(ts[NumTypes(ts)]) * sz[NumTypes(ts)]))

\* Contains<Type<T>, Type<typename Type<Elements>::type>...>
Contains(T, names) == \E i \in 1..Len(names) : names[i] = T

\* adl_barrier::Find(Needle, Ts...): the position of the first Needle
RECURSIVE Find(_, _)
Find(T, names) == IF names[1] = T THEN 0 ELSE Find(T, Tail(names)) + 1

\* the Duplicate element type check looking at the next element only
RECURSIVE FindAssert_Adjacent(_, _)
FindAssert_Adjacent(T, names) ==
    IF names[1] = T THEN (Len(names) < 2 \/ names[2] # T)
    ELSE FindAssert_Adjacent(T, Tail(names))

\* the static_assert of the Find overload that matches the needle
RECURSIVE FindAssert(_, _)
FindAssert(T, names) ==
    IF names[1] = T THEN ~Contains(T, Tail(names)) ELSE FindAssert(T, Tail(names))

\* the underlying element types: Type<typename Type<Elements>::type>...
ElementTypes(ts) == [i \in 1..Len(ts) |-> Type(ts[i])]

\* template <class T> static constexpr size_t ElementIndex()
ElementIndex(ts, T) == Find(T, ElementTypes(ts))

\* the static_asserts met while ElementIndex<T>() is instantiated
ElementIndexAssert(ts, T) ==
    Contains(T, ElementTypes(ts)) /\ FindAssert(T, ElementTypes(ts))

\* the assert of Pointer<N>(p) (requires Alignment() != 0 to be evaluated)
PointerAssert(ts, p) == p % Alignment(ts) = 0

\* Pointer that returns the offset without the buffer address
Pointer_NoBase(ts, sz, N, p) == Offset(ts, sz, N)

\* template <size_t N, class Char> Pointer(Char* p): p + Offset<N>()
Pointer(ts, sz, N, p) == p + Offset(ts, sz, N)

(***************************************************************************)
(* The element types and counts the model draws its inputs from.           *)
(***************************************************************************)
CandidateTypes ==
    {TChar, TInt, Aligned(TChar, 0), Aligned(TChar, 2), Aligned(TChar, 3), Aligned(TInt, 2)}
CandidateLists == UNION {[1..n -> CandidateTypes] : n \in 1..MaxTypes}
Counts == 0..MaxCount
CountLists(k) == [1..k -> Counts]

TypeNames == {"char", "int"}

\* Buffer addresses handed to Pointer(): 8 is a multiple of every alignment of
\* the candidate element types, 10 is not a multiple of 4.
BufAddrs == {8, 10}


NoRet == [op |-> "none"]
NoClient == [kind |-> "none"]

Init ==
    /\ elems = <<>>
    /\ size_ = <<>>
    /\ pc = "unresolved"
    /\ ret = NoRet
    /\ prev = <<>>
    /\ buf = <<>>
    /\ cl = NoClient

\* using L = Layout<Ts...>: the template is instantiated if its static_asserts hold
DefineLayout ==
    /\ pc = "unresolved"
    /\ \E ts \in CandidateLists :
        /\ LayoutAssert(ts)
        /\ elems' = ts
    /\ pc' = "defined"
    /\ UNCHANGED <<size_, ret, prev>>
    /\ UNCHANGED client

\* L::Partial(sizes...): static_assert(sizeof...(Sizes) <= sizeof...(Ts))
Partial ==
    /\ pc = "defined"
    /\ \E k \in 0..MaxTypes :
        /\ k <= Len(elems)
        /\ \E sizes \in CountLists(k) : size_' = sizes
    /\ pc' = "built"
    /\ UNCHANGED <<elems, ret, prev>>
    /\ UNCHANGED client

\* L layout(sizes...): the constructor takes one count per element type
LayoutCtor ==
    /\ pc = "defined"
    /\ \E sizes \in CountLists(Len(elems)) : size_' = sizes
    /\ pc' = "built"
    /\ UNCHANGED <<elems, ret, prev>>
    /\ UNCHANGED client

\* layout.Offsets()
CallOffsets ==
    /\ pc = "built"
    /\ ret' = [op |-> "Offsets", val |-> Offsets(elems, size_)]
    /\ UNCHANGED <<elems, size_, pc, prev>>
    /\ UNCHANGED client

\* L::Alignment()
CallAlignment ==
    /\ pc = "built"
    /\ ret' = [op |-> "Alignment", val |-> Alignment(elems)]
    /\ UNCHANGED <<elems, size_, pc, prev>>
    /\ UNCHANGED client

\* layout.AllocSize(): static_assert(NumTypes == NumSizes)
CallAllocSize ==
    /\ pc = "built"
    /\ NumTypes(elems) = NumSizes(size_)
    /\ ret' = [op |-> "AllocSize", val |-> AllocSize(elems, size_)]
    /\ UNCHANGED <<elems, size_, pc, prev>>
    /\ UNCHANGED client

\* The outcome of Pointer<N>(p) in the Debug build: the assert on p aborts the
\* program; with Alignment() == 0 the assert divides by zero, which is
\* undefined behaviour (the program traps or carries on).
PointerOutcome(op, key, N, p) ==
    LET returned == [op |-> op, key |-> key, n |-> N, p |-> p,
                     val |-> Pointer(elems, size_, N, p)]
        aborted == [op |-> "abort", key |-> key, n |-> N, p |-> p]
    IN
    IF Alignment(elems) = 0
    THEN \/ (ret' = returned /\ pc' = pc)
         \/ (ret' = aborted /\ pc' = "aborted")
    ELSE IF PointerAssert(elems, p)
         THEN ret' = returned /\ pc' = pc
         ELSE ret' = aborted /\ pc' = "aborted"

\* layout.Pointer<N>(p): static_assert(N < NumOffsets)
CallPointer ==
    /\ pc = "built"
    /\ \E N \in 0..(MaxTypes - 1), p \in BufAddrs :
        /\ N < NumOffsets(elems, size_)
        /\ PointerOutcome("Pointer", N, N, p)
    /\ UNCHANGED <<elems, size_, prev>>
    /\ UNCHANGED client

\* layout.Pointer<T>(p): the static_asserts of ElementIndex<T>() and Find
CallPointerT ==
    /\ pc = "built"
    /\ \E T \in TypeNames, p \in BufAddrs :
        /\ ElementIndexAssert(elems, T)
        /\ ElementIndex(elems, T) < NumOffsets(elems, size_)
        /\ PointerOutcome("PointerT", T, ElementIndex(elems, T), p)
    /\ UNCHANGED <<elems, size_, prev>>
    /\ UNCHANGED client

\* The reader of a record builds a larger descriptor from the one it has: the
\* counts it knows already, followed by the counts it has found since.
Refine ==
    /\ pc = "built"
    /\ ret.op = "Offsets"
    /\ \E k \in 1..MaxTypes :
        /\ Len(size_) + k <= Len(elems)
        /\ \E more \in CountLists(k) : size_' = size_ \o more
    /\ prev' = ret.val
    /\ ret' = NoRet
    /\ UNCHANGED <<elems, pc>>
    /\ UNCHANGED client

\* A client that builds a descriptor and queries its offsets, alignment and size.
Next ==
    \/ DefineLayout
    \/ Partial
    \/ LayoutCtor
    \/ CallOffsets
    \/ CallAlignment
    \/ CallAllocSize

Spec == Init /\ [][Next]_vars

\* A client that builds a descriptor and takes pointers into a buffer.
NextPointer ==
    \/ DefineLayout
    \/ Partial
    \/ LayoutCtor
    \/ CallPointer
    \/ CallPointerT

SpecPointer == Init /\ [][NextPointer]_vars

NextRefine ==
    \/ DefineLayout
    \/ Partial
    \/ CallOffsets
    \/ Refine

SpecRefine == Init /\ [][NextRefine]_vars

(***************************************************************************)
(* The backing buffer.  A byte of the block is a number in 0..255, or Junk *)
(* while nothing has been stored in it; an object of the client is stored  *)
(* as its bytes, least significant first.                                  *)
(***************************************************************************)
Junk == -1

\* byte k of the object representation of v (values stay below 2^24)
ByteOf(v, k) == IF k <= 2 THEN (v \div (256 ^ k)) % 256 ELSE 0

\* the object representation of v in an object of n bytes
Encode(v, n) == [k \in 1..n |-> ByteOf(v, k - 1)]

\* the value of the object whose bytes are bs; Junk if a byte was never stored
Decode(bs) ==
    IF \E k \in 1..Len(bs) : bs[k] = Junk THEN Junk
    ELSE IF \E k \in 4..Len(bs) : bs[k] # 0 THEN SizeMod
    ELSE (IF Len(bs) >= 1 THEN bs[1] ELSE 0)
         + (IF Len(bs) >= 2 THEN 256 * bs[2] ELSE 0)
         + (IF Len(bs) >= 3 THEN 65536 * bs[3] ELSE 0)

\* the addresses of an object of n bytes at addr
Range(addr, n) == addr..(addr + n - 1)

\* is the object of n bytes at addr inside the block?
InBuffer(mem, addr, n) == Range(addr, n) \subseteq DOMAIN mem

\* *ptr = v for an object of n bytes at addr
Store(mem, addr, v, n) ==
    [a \in DOMAIN mem |->
        IF a \in Range(addr, n) THEN Encode(v, n)[a - addr + 1] ELSE mem[a]]

\* *ptr for an object of n bytes at addr
Load(mem, addr, n) ==
    Decode([k \in 1..n |-> IF addr + k - 1 \in DOMAIN mem
                           THEN mem[addr + k - 1] ELSE Junk])

\* a fresh block of n bytes at p
Block(p, n) == [a \in Range(p, n) |-> Junk]

\* &ptr[j] for ptr = layout.Pointer<N>(p)
ElemAddr(ts, sz, N, j, p) == Pointer(ts, sz, N, p) + j * SizeOf(ts[N + 1])

(***************************************************************************)
(* The round trip of src/src/test_alignment.cpp: a block of AllocSize()    *)
(* bytes aligned to Alignment(), every element of every array written      *)
(* through the pointers of the descriptor, then read back.                 *)
(***************************************************************************)
ElemValues == {1, 2}

\* the elements of the arrays of a Full descriptor: array N, index j
Elements(ts, sz) ==
    {e \in (0..(Len(ts) - 1)) \X (0..(MaxCount - 1)) : e[2] < sz[e[1] + 1]}

\* p = aligned_alloc(layout.Alignment(), layout.AllocSize())
RtAllocate ==
    /\ pc = "built"
    /\ cl = NoClient
    /\ NumTypes(elems) = NumSizes(size_)
    /\ Alignment(elems) # 0
    /\ \E p \in BufAddrs :
        /\ PointerAssert(elems, p)
        /\ buf' = Block(p, AllocSize(elems, size_))
        /\ cl' = [kind |-> "roundtrip", p |-> p, written |-> {},
                  rsize |-> size_, oob |-> FALSE]
    /\ UNCHANGED <<elems, size_, pc, ret, prev>>

\* layout.Pointer<N>(p)[j] = v, for the elements in any order
RtWrite ==
    /\ pc = "built"
    /\ cl.kind = "roundtrip"
    /\ \E e \in Elements(elems, size_), v \in ElemValues :
        LET N == e[1]
            j == e[2]
            n == SizeOf(elems[N + 1])
            addr == ElemAddr(elems, size_, N, j, cl.p)
        IN
        /\ \A w \in cl.written : <<w.n, w.j>> # e
        /\ buf' = Store(buf, addr, v, n)
        /\ cl' = [cl EXCEPT !.written = @ \cup {[n |-> N, j |-> j, v |-> v]},
                            !.oob = @ \/ ~InBuffer(buf, addr, n)]
    /\ UNCHANGED <<elems, size_, pc, ret, prev>>

\* the reader builds its own L layout(sizes...) from the same counts
RtRebuild ==
    /\ pc = "built"
    /\ cl.kind = "roundtrip"
    /\ \E sizes \in CountLists(Len(elems)) :
        /\ sizes = size_
        /\ cl' = [cl EXCEPT !.kind = "rebuilt", !.rsize = sizes]
    /\ UNCHANGED <<elems, size_, pc, ret, prev, buf>>

\* layout.Pointer<N>(p)[j], or layout.Slices(p) and its element j of slice N
RtRead ==
    /\ pc = "built"
    /\ cl.kind \in {"roundtrip", "rebuilt"}
    /\ \A e \in Elements(elems, size_) : \E w \in cl.written : <<w.n, w.j>> = e
    /\ \E e \in Elements(elems, cl.rsize) :
        LET N == e[1]
            j == e[2]
            n == SizeOf(elems[N + 1])
            addr == ElemAddr(elems, cl.rsize, N, j, cl.p)
        IN
        /\ ret' = [op |-> "Read", n |-> N, j |-> j, val |-> Load(buf, addr, n)]
        /\ cl' = [cl EXCEPT !.oob = @ \/ ~InBuffer(buf, addr, n)]
    /\ UNCHANGED <<elems, size_, pc, prev, buf>>

\* A client that fills a buffer through a Full descriptor and reads it back.
NextRoundTrip ==
    \/ DefineLayout
    \/ LayoutCtor
    \/ RtAllocate
    \/ RtWrite
    \/ RtRebuild
    \/ RtRead

SpecRoundTrip == Init /\ [][NextRoundTrip]_vars

(***************************************************************************)
(* The self-describing record of src/src/test_serialize.cpp:               *)
(* L = Layout<size_t, size_t, float, double>, the two size_t arrays have   *)
(* one element each and hold the lengths of the float and double arrays.   *)
(***************************************************************************)
MaxPayload == 2

RecordTypes == <<TSizeT, TSizeT, TFloat, TDouble>>
HeaderCounts == <<1, 1>>
Payloads(n) == [1..n -> ElemValues]

\* memcpy(dst, src, n * sizeof(T)) for the objects vals of n bytes each
RECURSIVE Memcpy(_, _, _, _)
Memcpy(mem, dst, vals, n) ==
    IF vals = <<>> THEN mem
    ELSE Memcpy(Store(mem, dst, Head(vals), n), dst + n, Tail(vals), n)

\* ptr[0], ..., ptr[count - 1] for objects of n bytes each
LoadArray(mem, ptr, count, n) ==
    [i \in 1..count |-> Load(mem, ptr + (i - 1) * n, n)]

\* a size_t read from bytes that were never stored has an indeterminate value
ReadCount(x) == IF x = Junk THEN 0..MaxPayload ELSE {x}

\* using L = Layout<size_t, size_t, float, double>
RecDefine ==
    /\ pc = "unresolved"
    /\ LayoutAssert(RecordTypes)
    /\ elems' = RecordTypes
    /\ pc' = "defined"
    /\ UNCHANGED <<size_, ret, prev, buf, cl>>

\* create(floats, num_floats, doubles, num_doubles)
Create ==
    /\ pc = "defined"
    /\ cl = NoClient
    /\ \E nf \in 0..MaxPayload, nd \in 0..MaxPayload :
       \E floats \in Payloads(nf), doubles \in Payloads(nd), p \in BufAddrs :
        LET layout == HeaderCounts \o <<nf, nd>>
            p0 == Pointer(elems, layout, 0, p)
            p1 == Pointer(elems, layout, 1, p)
            pf == Pointer(elems, layout, ElementIndex(elems, "float"), p)
            pd == Pointer(elems, layout, ElementIndex(elems, "double"), p)
            m0 == Block(p, AllocSize(elems, layout))
            m1 == Store(m0, p0, nf, SizeOf(TSizeT))
            m2 == Store(m1, p1, nd, SizeOf(TSizeT))
            m3 == Memcpy(m2, pf, floats, SizeOf(TFloat))
            m4 == Memcpy(m3, pd, doubles, SizeOf(TDouble))
        IN
        /\ PointerAssert(elems, p)
        /\ ElementIndexAssert(elems, "float")
        /\ ElementIndexAssert(elems, "double")
        /\ size_' = layout
        /\ buf' = m4
        /\ cl' = [kind |-> "record", step |-> "created", p |-> p,
                  nf |-> nf, nd |-> nd, floats |-> floats, doubles |-> doubles,
                  wptr |-> <<p0, p1, pf, pd>>]
    /\ pc' = "built"
    /\ UNCHANGED <<elems, ret, prev>>

\* use(p), first half: partial = L::Partial(1, 1) and the two counts it finds
UsePartial ==
    /\ pc = "built"
    /\ cl.kind = "record"
    /\ cl.step = "created"
    /\ LET partial == HeaderCounts
           p0 == Pointer(elems, partial, 0, cl.p)
           p1 == Pointer(elems, partial, 1, cl.p)
       IN
       /\ 1 < NumOffsets(elems, partial)
       /\ PointerAssert(elems, cl.p)
       /\ size_' = partial
       /\ cl' = [kind |-> "record", step |-> "header", p |-> cl.p,
                 nf |-> cl.nf, nd |-> cl.nd,
                 floats |-> cl.floats, doubles |-> cl.doubles,
                 wptr |-> cl.wptr, rhdr |-> <<p0, p1>>,
                 num_floats |-> Load(buf, p0, SizeOf(TSizeT)),
                 num_doubles |-> Load(buf, p1, SizeOf(TSizeT))]
    /\ UNCHANGED <<elems, pc, ret, prev, buf>>

\* use(p), second half: layout(1, 1, num_floats, num_doubles) and the payload
UseFull ==
    /\ pc = "built"
    /\ cl.kind = "record"
    /\ cl.step = "header"
    /\ \E num_floats \in ReadCount(cl.num_floats),
          num_doubles \in ReadCount(cl.num_doubles) :
        LET layout == HeaderCounts \o <<num_floats, num_doubles>>
            floats == Pointer(elems, layout, 2, cl.p)
            doubles == Pointer(elems, layout, 3, cl.p)
        IN
        /\ size_' = layout
        /\ cl' = [kind |-> "record", step |-> "done", p |-> cl.p,
                  nf |-> cl.nf, nd |-> cl.nd,
                  floats |-> cl.floats, doubles |-> cl.doubles,
                  wptr |-> cl.wptr, rhdr |-> cl.rhdr,
                  num_floats |-> num_floats, num_doubles |-> num_doubles,
                  rptr |-> <<floats, doubles>>,
                  printed |-> <<LoadArray(buf, floats, num_floats, SizeOf(TFloat)),
                                LoadArray(buf, doubles, num_doubles, SizeOf(TDouble))>>]
    /\ UNCHANGED <<elems, pc, ret, prev, buf>>

\* main of test_serialize.cpp: the writer creates a record, the reader uses it.
NextRecord ==
    \/ RecDefine
    \/ Create
    \/ UsePartial
    \/ UseFull

SpecRecord == Init /\ [][NextRecord]_vars

(***************************************************************************)
(* Sizes, bounded views and the batch variants.                            *)
(***************************************************************************)
\* template <size_t N> constexpr size_t Size() const
Size(sz, N) == sz[N + 1]

\* static_assert(N < NumSizes, "Index out of bounds") of Size<N>()
SizeAssert(sz, N) == N < NumSizes(sz)

\* Offset<N>() rejecting the index N = NumSizes as well
OffsetAssert_Strict(ts, sz, N) == N < NumTypes(ts) /\ N < NumSizes(sz)

\* static_assert(N < NumOffsets, "Index out of bounds") of Offset<N>(), N != 0;
\* for N >= NumTypes there is no ElementType<N>
OffsetAssert(ts, sz, N) == N < NumTypes(ts) /\ (N = 0 \/ N < NumOffsets(ts, sz))

\* Sizes() with the entries in reverse order
Sizes_Reversed(sz) == [i \in 1..NumSizes(sz) |-> Size(sz, NumSizes(sz) - i)]

\* constexpr std::array<size_t, NumSizes> Sizes() const
Sizes(sz) == [i \in 1..NumSizes(sz) |-> Size(sz, i - 1)]

\* Slice<N>(p) with the length of the view in bytes instead of elements
Slice_Bytes(ts, sz, N, p) ==
    [data |-> Pointer(ts, sz, N, p), size |-> SizeOf(ts[N + 1]) * Size(sz, N)]

\* Slice<N>(p): SliceType(Pointer<N>(p), Size<N>())
Slice(ts, sz, N, p) == [data |-> Pointer(ts, sz, N, p), size |-> Size(sz, N)]

\* Pointers(p) with the entries in reverse order
Pointers_Reversed(ts, sz, p) ==
    [i \in 1..NumOffsets(ts, sz) |-> Pointer(ts, sz, NumOffsets(ts, sz) - i, p)]

\* Pointers(p): std::tuple(Pointer<OffsetSeq>(p)...)
Pointers(ts, sz, p) == [i \in 1..NumOffsets(ts, sz) |-> Pointer(ts, sz, i - 1, p)]

\* Slices(p): std::tuple(Slice<SizeSeq>(p)...)
Slices(ts, sz, p) == [i \in 1..NumSizes(sz) |-> Slice(ts, sz, i - 1, p)]

\* a call whose static_assert fails: the program is rejected by the compiler
Rejected(call, key, msg) ==
    /\ ret' = [op |-> "static_assert", call |-> call, key |-> key, msg |-> msg]
    /\ pc' = "rejected"

\* a call that evaluates Pointer<N>(p) for some N: the assert on p in the Debug
\* build, undefined (division by zero) when Alignment() == 0
Checked(call, key, p, returned) ==
    LET aborted == [op |-> "abort", key |-> key, n |-> call, p |-> p]
    IN
    IF Alignment(elems) = 0
    THEN \/ (ret' = returned /\ pc' = pc)
         \/ (ret' = aborted /\ pc' = "aborted")
    ELSE IF PointerAssert(elems, p)
         THEN ret' = returned /\ pc' = pc
         ELSE ret' = aborted /\ pc' = "aborted"

\* the descriptor has not been queried yet: the clients of the specifications
\* below make one call on the descriptor they built
FirstCall == ret = NoRet

\* layout.Slice<N>(p)
CallSlice ==
    /\ pc = "built"
    /\ FirstCall
    /\ \E N \in 0..(MaxTypes - 1), p \in BufAddrs :
        IF OffsetAssert(elems, size_, N) /\ SizeAssert(size_, N)
        THEN Checked("Slice", N, p,
                     [op |-> "Slice", n |-> N, p |-> p,
                      val |-> Slice(elems, size_, N, p),
                      ptr |-> Pointer(elems, size_, N, p)])
        ELSE Rejected("Slice", N, "Index out of bounds")
    /\ UNCHANGED <<elems, size_, prev>>
    /\ UNCHANGED client

\* layout.Pointers(p)
CallPointers ==
    /\ pc = "built"
    /\ FirstCall
    /\ \E p \in BufAddrs :
        Checked("Pointers", 0, p,
                [op |-> "Pointers", p |-> p, val |-> Pointers(elems, size_, p)])
    /\ UNCHANGED <<elems, size_, prev>>
    /\ UNCHANGED client

\* layout.Slices(p): with no known count no Pointer<N>(p) is evaluated
CallSlices ==
    /\ pc = "built"
    /\ FirstCall
    /\ \E p \in BufAddrs :
        IF NumSizes(size_) = 0
        THEN ret' = [op |-> "Slices", p |-> p, val |-> <<>>] /\ pc' = pc
        ELSE Checked("Slices", 0, p,
                     [op |-> "Slices", p |-> p, val |-> Slices(elems, size_, p)])
    /\ UNCHANGED <<elems, size_, prev>>
    /\ UNCHANGED client

\* A client that takes views and the batch variants of a descriptor.
NextView ==
    \/ DefineLayout
    \/ Partial
    \/ CallOffsets
    \/ CallSlice
    \/ CallPointers
    \/ CallSlices

SpecView == Init /\ [][NextView]_vars

(***************************************************************************)
(* Calls with an index or a type the descriptor may not have: the          *)
(* static_asserts accept the call or stop the compilation.                 *)
(***************************************************************************)
\* element-type lists without alignment overrides
NaturalLists == UNION {[1..n -> {TChar, TInt}] : n \in 1..MaxTypes}

\* using L = Layout<Ts...> with natural element types
DefineNatural ==
    /\ pc = "unresolved"
    /\ \E ts \in NaturalLists :
        /\ LayoutAssert(ts)
        /\ elems' = ts
    /\ pc' = "defined"
    /\ UNCHANGED <<size_, ret, prev>>
    /\ UNCHANGED client

\* layout.Offset<N>()
CallOffset ==
    /\ pc = "built"
    /\ FirstCall
    /\ \E N \in 0..MaxTypes :
        IF OffsetAssert(elems, size_, N)
        THEN /\ ret' = [op |-> "Offset", n |-> N, val |-> Offset(elems, size_, N)]
             /\ pc' = pc
        ELSE Rejected("Offset", N, "Index out of bounds")
    /\ UNCHANGED <<elems, size_, prev>>
    /\ UNCHANGED client

\* layout.Size<N>()
CallSize ==
    /\ pc = "built"
    /\ FirstCall
    /\ \E N \in 0..MaxTypes :
        IF SizeAssert(size_, N)
        THEN /\ ret' = [op |-> "Size", n |-> N, val |-> Size(size_, N)]
             /\ pc' = pc
        ELSE Rejected("Size", N, "Index out of bounds")
    /\ UNCHANGED <<elems, size_, prev>>
    /\ UNCHANGED client

\* layout.Pointer<N>(p): the static_assert is that of the Offset<N>() it calls
CallPointerN ==
    /\ pc = "built"
    /\ FirstCall
    /\ \E N \in 0..MaxTypes, p \in BufAddrs :
        IF OffsetAssert(elems, size_, N)
        THEN Checked("Pointer", N, p,
                     [op |-> "PointerN", n |-> N, p |-> p,
                      val |-> Pointer(elems, size_, N, p)])
        ELSE Rejected("Pointer", N, "Index out of bounds")
    /\ UNCHANGED <<elems, size_, prev>>
    /\ UNCHANGED client

\* A client that asks for the array at an index, in range or not.
NextIndex ==
    \/ DefineNatural
    \/ Partial
    \/ CallOffset
    \/ CallSize
    \/ CallPointerN
    \/ CallSlice

SpecIndex == Init /\ [][NextIndex]_vars

(***************************************************************************)
(* Building a descriptor from K counts, and the calls that need all counts *)
(* or a unique element type.                                               *)
(***************************************************************************)
\* static_assert(sizeof...(Sizes) <= sizeof...(Ts)) of Layout::Partial
PartialAssert(ts, sizes) == Len(sizes) <= NumTypes(ts)

\* AllocSize() accepted for descriptors of a single field only
AllocSizeAssert_OneField(ts, sz) == NumTypes(ts) = 1 /\ NumSizes(sz) = 1

\* static_assert(NumTypes == NumSizes, "You must specify sizes of all fields")
AllocSizeAssert(ts, sz) == NumTypes(ts) = NumSizes(sz)

\* the element types a client looks up: "double" is in none of the lists
LookupNames == TypeNames \cup {"double"}

\* L::Partial(sizes...) with K counts, K up to one more than any list has
BuildPartial ==
    /\ pc = "defined"
    /\ \E k \in 0..(MaxTypes + 1) :
       \E sizes \in CountLists(k) :
        IF PartialAssert(elems, sizes)
        THEN /\ size_' = sizes
             /\ pc' = "built"
             /\ cl' = [kind |-> "built", via |-> "Partial", counts |-> sizes]
             /\ ret' = ret
        ELSE /\ Rejected("Partial", k, "")
             /\ UNCHANGED <<size_, cl>>
    /\ UNCHANGED <<elems, prev, buf>>

\* L layout(sizes...)
BuildLayout ==
    /\ pc = "defined"
    /\ \E sizes \in CountLists(Len(elems)) :
        /\ size_' = sizes
        /\ cl' = [kind |-> "built", via |-> "Layout", counts |-> sizes]
    /\ pc' = "built"
    /\ UNCHANGED <<elems, ret, prev, buf>>

\* layout.Sizes()
CallSizes ==
    /\ pc = "built"
    /\ FirstCall
    /\ ret' = [op |-> "Sizes", val |-> Sizes(size_)]
    /\ UNCHANGED <<elems, size_, pc, prev>>
    /\ UNCHANGED client

\* layout.AllocSize() of any descriptor
CallAllocSizeK ==
    /\ pc = "built"
    /\ FirstCall
    /\ IF AllocSizeAssert(elems, size_)
       THEN /\ ret' = [op |-> "AllocSize", val |-> AllocSize(elems, size_)]
            /\ pc' = pc
       ELSE Rejected("AllocSize", Len(size_), "You must specify sizes of all fields")
    /\ UNCHANGED <<elems, size_, prev>>
    /\ UNCHANGED client

\* the static_assert that stops a call starting with ElementIndex<T>(), "" if
\* none does
LookupError(T) ==
    IF ~Contains(T, ElementTypes(elems)) THEN "Type not found"
    ELSE IF ~FindAssert(T, ElementTypes(elems)) THEN "Duplicate element type"
    ELSE ""

\* L::ElementIndex<T>()
CallElementIndex ==
    /\ pc = "built"
    /\ FirstCall
    /\ \E T \in LookupNames :
        IF LookupError(T) # ""
        THEN Rejected("ElementIndex", T, LookupError(T))
        ELSE /\ ret' = [op |-> "ElementIndex", key |-> T,
                        val |-> ElementIndex(elems, T)]
             /\ pc' = pc
    /\ UNCHANGED <<elems, size_, prev>>
    /\ UNCHANGED client

\* layout.Offset<T>(): Offset<ElementIndex<T>()>()
CallOffsetT ==
    /\ pc = "built"
    /\ FirstCall
    /\ \E T \in LookupNames :
        IF LookupError(T) # ""
        THEN Rejected("OffsetT", T, LookupError(T))
        ELSE LET i == ElementIndex(elems, T)
             IN IF OffsetAssert(elems, size_, i)
                THEN /\ ret' = [op |-> "OffsetT", key |-> T, n |-> i,
                                val |-> Offset(elems, size_, i)]
                     /\ pc' = pc
                ELSE Rejected("Offset", i, "Index out of bounds")
    /\ UNCHANGED <<elems, size_, prev>>
    /\ UNCHANGED client

\* layout.Size<T>(): Size<ElementIndex<T>()>()
CallSizeT ==
    /\ pc = "built"
    /\ FirstCall
    /\ \E T \in LookupNames :
        IF LookupError(T) # ""
        THEN Rejected("SizeT", T, LookupError(T))
        ELSE LET i == ElementIndex(elems, T)
             IN IF SizeAssert(size_, i)
                THEN /\ ret' = [op |-> "SizeT", key |-> T, n |-> i,
                                val |-> Size(size_, i)]
                     /\ pc' = pc
                ELSE Rejected("Size", i, "Index out of bounds")
    /\ UNCHANGED <<elems, size_, prev>>
    /\ UNCHANGED client

\* A client that builds descriptors with any number of counts and looks arrays
\* up by index and by element type.
NextUsage ==
    \/ DefineNatural
    \/ BuildPartial
    \/ BuildLayout
    \/ CallOffsets
    \/ CallSizes
    \/ CallAllocSizeK
    \/ CallOffset
    \/ CallSize
    \/ CallElementIndex
    \/ CallOffsetT
    \/ CallSizeT

SpecUsage == Init /\ [][NextUsage]_vars

(***************************************************************************)
(* Alignment overrides: one entry T of a natural element-type list is      *)
(* replaced by Aligned<T, A>.                                              *)
(***************************************************************************)
MaxOverride == 8

\* the element-type list with entry i replaced by Aligned<T, A>
WithOverride(base, i, A) == [base EXCEPT ![i + 1] = Aligned(base[i + 1], A)]

\* using L = Layout<..., Aligned<T, A>, ...>: the static_assert of
\* AlignOf<Aligned<T, A>> and that of LayoutImpl on IsLegalElementType
DefineOverride ==
    /\ pc = "unresolved"
    /\ \E base \in NaturalLists, i \in 0..(MaxTypes - 1), A \in 0..MaxOverride :
        /\ i < Len(base)
        /\ cl' = [kind |-> "override", base |-> base, i |-> i, A |-> A]
        /\ LET ts == WithOverride(base, i, A)
           IN
           IF ~AlignOfAssert(ts[i + 1])
           THEN /\ Rejected("Layout", A,
                       "Custom alignment can't be lower than the type's alignment")
                /\ elems' = elems
           ELSE IF ~LayoutAssert(ts)
                THEN /\ Rejected("Layout", A,
                            "Invalid element type (see IsLegalElementType)")
                     /\ elems' = elems
                ELSE /\ elems' = ts
                     /\ pc' = "defined"
                     /\ ret' = ret
    /\ UNCHANGED <<size_, prev, buf>>

\* A client of a layout with one alignment override.
NextOverride ==
    \/ DefineOverride
    \/ Partial
    \/ CallOffsets
    \/ CallAlignment
    \/ CallSizes
    \/ CallAllocSizeK
    \/ CallElementIndex

SpecOverride == Init /\ [][NextOverride]_vars

(***************************************************************************)
(* The diagnostics: DebugString() and PoisonPadding(p).                    *)
(***************************************************************************)
\* adl_barrier::TypeName<T>() with RTTI and the demangler: "<name>"
TypeName(e) == <<"<", Type(e), ">">>

\* fmt::format("[{}]; @({})", size_[i], offsets[i + 1], types[i + 1],
\* sizes[i + 1]): the two arguments without a replacement field are not printed
RECURSIVE DebugFields(_, _, _)
DebugFields(ts, sz, i) ==
    IF i = NumOffsets(ts, sz) - 1 THEN <<>>
    ELSE <<"[", ToString(sz[i + 1]), "]; @(", ToString(Offset(ts, sz, i + 1)), ")">>
         \o DebugFields(ts, sz, i + 1)

\* std::string DebugString() const, as the pieces it is formatted from
DebugString(ts, sz) ==
    <<"@0">> \o TypeName(ts[1]) \o <<"(", ToString(SizeOf(ts[1])), ")">>
    \o DebugFields(ts, sz, 0)
    \o (IF NumTypes(ts) = NumSizes(sz) /\ NumSizes(sz) - 1 >= 0
        THEN <<"[", ToString(sz[NumSizes(sz)]), "]">>
        ELSE <<>>)

\* PoisonPadding<Char, N>(p) in a build with ADDRESS_SANITIZER: the regions
\* <<start, length>> handed to ASAN_POISON_MEMORY_REGION, relative to p
RECURSIVE PoisonRegions(_, _, _)
PoisonRegions(ts, sz, N) ==
    IF N = 0 THEN {}
    ELSE LET start == Offset(ts, sz, N - 1) + SizeOf(ts[N]) * sz[N]
         IN PoisonRegions(ts, sz, N - 1)
            \cup (IF AlignOf(ts[N]) % AlignOf(ts[N + 1]) # 0
                  THEN {<<start, Offset(ts, sz, N) - start>>}
                  ELSE {})

\* PoisonPadding that marks the padding by filling it with a byte pattern
AfterPoison_Fill(mem, p, regions) ==
    [a \in DOMAIN mem |->
        IF \E r \in regions : a \in Range(p + r[1], r[2]) THEN 255 ELSE mem[a]]

\* the block after ASAN_POISON_MEMORY_REGION: poisoning marks the shadow
\* memory of the sanitizer and stores nothing in the region
AfterPoison(mem, p, regions) == mem

\* layout.DebugString()
CallDebugString ==
    /\ pc = "built"
    /\ ret' = [op |-> "DebugString", val |-> DebugString(elems, size_)]
    /\ UNCHANGED <<elems, size_, pc, prev>>
    /\ UNCHANGED client

\* p = aligned_alloc(L::Alignment(), layout.AllocSize()) by a client that
\* then only queries the descriptor
FrAllocate ==
    /\ pc = "built"
    /\ cl.kind = "built"
    /\ AllocSizeAssert(elems, size_)
    /\ Alignment(elems) # 0
    /\ \E p \in BufAddrs :
        /\ PointerAssert(elems, p)
        /\ buf' = Block(p, AllocSize(elems, size_))
        /\ cl' = [kind |-> "frame", via |-> cl.via, counts |-> cl.counts, p |-> p]
    /\ UNCHANGED <<elems, size_, pc, ret, prev>>

\* layout.PoisonPadding(p), built with or without ADDRESS_SANITIZER: without
\* it only PoisonPadding<Char, 0> evaluates Pointer<0>(p)
CallPoisonPadding ==
    /\ pc = "built"
    /\ cl.kind = "frame"
    /\ \E asan \in BOOLEAN :
        LET N == NumOffsets(elems, size_) - 1
            regions == IF asan THEN PoisonRegions(elems, size_, N) ELSE {}
            done == [op |-> "PoisonPadding", p |-> cl.p, asan |-> asan,
                     regions |-> regions]
        IN
        /\ IF asan \/ N = 0
           THEN Checked("PoisonPadding", N, cl.p, done)
           ELSE ret' = done /\ pc' = pc
        /\ buf' = AfterPoison(buf, cl.p, regions)
    /\ UNCHANGED <<elems, size_, prev, cl>>

\* the reader of a record, holding a Partial descriptor, constructs the
\* descriptor with one more count: const L next(sizes..., c)
RefineCopy ==
    /\ pc = "built"
    /\ cl.kind = "built"
    /\ Len(size_) < Len(elems)
    /\ \E c \in Counts :
        cl' = [kind |-> "refined", via |-> cl.via, counts |-> cl.counts,
               next |-> size_ \o <<c>>]
    /\ UNCHANGED <<elems, size_, pc, ret, prev, buf>>

\* A client that queries a descriptor any number of times, in any order.
NextFrame ==
    \/ DefineNatural
    \/ BuildPartial
    \/ FrAllocate
    \/ RefineCopy
    \/ CallOffsets
    \/ CallAlignment
    \/ CallAllocSize
    \/ CallPointerN
    \/ CallDebugString
    \/ CallPoisonPadding
    \/ CallOffset
    \/ CallSize
    \/ CallSizes
    \/ CallSlice
    \/ CallPointers
    \/ CallSlices

SpecFrame == Init /\ [][NextFrame]_vars

(***************************************************************************)
(* Threads sharing one descriptor and one buffer: thread t accesses only   *)
(* the elements of array t, through layout.Pointer<t>(p).                  *)
(***************************************************************************)
\* the value thread t stores in element j of its array
ThreadValue(t, j) == 1 + t * (MaxCount + 1) + j

\* the buffer after the arrays N, N + 1, ... are filled one after the other
RECURSIVE FilledFrom(_, _, _, _, _)
FilledFrom(mem, ts, sz, p, N) ==
    IF N = Len(ts) THEN mem
    ELSE FilledFrom(
            Memcpy(mem, Pointer(ts, sz, N, p),
                   [j \in 1..sz[N + 1] |-> ThreadValue(N, j - 1)], SizeOf(ts[N + 1])),
            ts, sz, p, N + 1)

\* the main thread allocates the buffer and starts one thread per array
ThStart ==
    /\ pc = "built"
    /\ cl = NoClient
    /\ AllocSizeAssert(elems, size_)
    /\ Alignment(elems) # 0
    /\ \E p \in BufAddrs :
        /\ PointerAssert(elems, p)
        /\ buf' = Block(p, AllocSize(elems, size_))
        /\ cl' = [kind |-> "threads", p |-> p, written |-> {}, stores |-> {}]
    /\ UNCHANGED <<elems, size_, pc, ret, prev>>

\* thread t: layout.Pointer<t>(p)[j] = v
ThWrite ==
    /\ pc = "built"
    /\ cl.kind = "threads"
    /\ \E e \in Elements(elems, size_) :
        LET t == e[1]
            j == e[2]
            n == SizeOf(elems[t + 1])
            addr == ElemAddr(elems, size_, t, j, cl.p)
        IN
        /\ e \notin cl.written
        /\ buf' = Store(buf, addr, ThreadValue(t, j), n)
        /\ cl' = [cl EXCEPT !.written = @ \cup {e},
                            !.stores = @ \cup {<<a, t>> : a \in Range(addr, n)}]
    /\ UNCHANGED <<elems, size_, pc, ret, prev>>

\* thread t reads an element it has written: layout.Pointer<t>(p)[j]
ThRead ==
    /\ pc = "built"
    /\ cl.kind = "threads"
    /\ \E e \in cl.written :
        ret' = [op |-> "ThRead", n |-> e[1], j |-> e[2],
                val |-> Load(buf, ElemAddr(elems, size_, e[1], e[2], cl.p),
                             SizeOf(elems[e[1] + 1]))]
    /\ UNCHANGED <<elems, size_, pc, prev, buf, cl>>

\* a thread queries the shared descriptor: layout.Offsets()
ThQuery ==
    /\ pc = "built"
    /\ cl.kind = "threads"
    /\ ret' = [op |-> "ThOffsets", val |-> Offsets(elems, size_)]
    /\ UNCHANGED <<elems, size_, pc, prev, buf, cl>>

\* One thread per array, interleaved in any order.
NextThreads ==
    \/ DefineLayout
    \/ LayoutCtor
    \/ ThStart
    \/ ThWrite
    \/ ThRead
    \/ ThQuery

SpecThreads == Init /\ [][NextThreads]_vars

(***************************************************************************)
(* The two layouts of src/src/test_alignment.cpp (test_alignment):         *)
(* Layout<char, int, double> and Layout<char, Aligned<int, 32>, double>.   *)
(***************************************************************************)
MaxElems == 4

ScenarioLists ==
    {<<TChar, TInt, TDouble>>, <<TChar, Aligned(TInt, 32), TDouble>>}

\* addresses of blocks: 32 is aligned to 8 and to 32, 40 to 8 only
ScenarioAddrs == {32, 40}

\* using L = Layout<char, int, double> / Layout<char, Aligned<int,32>, double>
DefineScenario ==
    /\ pc = "unresolved"
    /\ \E ts \in ScenarioLists :
        /\ LayoutAssert(ts)
        /\ elems' = ts
    /\ pc' = "defined"
    /\ UNCHANGED <<size_, ret, prev>>
    /\ UNCHANGED client

\* L layout(n0, n1, n2)
BuildScenario ==
    /\ pc = "defined"
    /\ \E sizes \in [1..Len(elems) -> 0..MaxElems] : size_' = sizes
    /\ pc' = "built"
    /\ UNCHANGED <<elems, ret, prev>>
    /\ UNCHANGED client

\* layout.Pointer<char>(p), layout.Pointer<int>(p), layout.Pointer<double>(p)
ScenarioPointer ==
    /\ pc = "built"
    /\ FirstCall
    /\ \E T \in {"char", "int", "double"}, p \in ScenarioAddrs :
        LET i == ElementIndex(elems, T)
        IN /\ ElementIndexAssert(elems, T)
           /\ OffsetAssert(elems, size_, i)
           /\ Checked("Pointer", T, p,
                      [op |-> "PointerT", key |-> T, n |-> i, p |-> p,
                       val |-> Pointer(elems, size_, i, p)])
    /\ UNCHANGED <<elems, size_, prev>>
    /\ UNCHANGED client

\* main of test_alignment: the layout, its alignment, size, offsets, pointers.
NextScenario ==
    \/ DefineScenario
    \/ BuildScenario
    \/ CallAlignment
    \/ CallAllocSizeK
    \/ CallOffset
    \/ ScenarioPointer

SpecScenario == Init /\ [][NextScenario]_vars

(***************************************************************************)
(* Layouts of naturally aligned types in any order, as in test_basic of    *)
(* src/src/test_alignment.cpp (double, float, int, char: alignment         *)
(* descending) and test_alignment (char, int, double: ascending).          *)
(***************************************************************************)
MaxRun == 2

OrderLists == UNION {[1..n -> {TChar, TInt, TDouble}] : n \in 1..MaxTypes}

\* using L = Layout<Ts...> with naturally aligned Ts in some order
DefineOrder ==
    /\ pc = "unresolved"
    /\ \E ts \in OrderLists :
        /\ LayoutAssert(ts)
        /\ elems' = ts
    /\ pc' = "defined"
    /\ UNCHANGED <<size_, ret, prev>>
    /\ UNCHANGED client

\* L layout(n0, n1, ...)
BuildOrder ==
    /\ pc = "defined"
    /\ \E sizes \in [1..Len(elems) -> 0..MaxRun] : size_' = sizes
    /\ pc' = "built"
    /\ UNCHANGED <<elems, ret, prev>>
    /\ UNCHANGED client

NextOrder ==
    \/ DefineOrder
    \/ BuildOrder
    \/ CallOffsets
    \/ CallAllocSizeK

SpecOrder == Init /\ [][NextOrder]_vars

(***************************************************************************)
(* The operations that take a buffer pointer, called with a pointer that   *)
(* is or is not aligned to Alignment(), in the Debug build (assert on).    *)
(***************************************************************************)

\* some ElementAlignment<i>::value % ElementAlignment<i + 1>::value of
\* PoisonPadding<Char, N> divides by zero
ZeroDivisor(ts, N) == \E i \in 1..N : AlignOf(ts[i + 1]) = 0

\* the sets of regions PoisonPadding<Char, N> can poison: the one set of the
\* code's test, or either way for a gap whose test divides by zero (undefined)
RECURSIVE PoisonOutcomes(_, _, _)
PoisonOutcomes(ts, sz, N) ==
    IF N = 0 THEN {{}}
    ELSE LET start == Offset(ts, sz, N - 1) + SizeOf(ts[N]) * sz[N]
             gap == {<<start, Offset(ts, sz, N) - start>>}
             poison == IF AlignOf(ts[N + 1]) = 0 THEN BOOLEAN
                       ELSE {AlignOf(ts[N]) % AlignOf(ts[N + 1]) # 0}
         IN {r \cup (IF b THEN gap ELSE {}) :
                r \in PoisonOutcomes(ts, sz, N - 1), b \in poison}

\* layout.PoisonPadding(p) for any p: PoisonPadding<Char, 0> evaluates
\* Pointer<0>(p); PoisonPadding<Char, N> with N != 0 reaches it by recursion
\* only when ADDRESS_SANITIZER is defined and otherwise does nothing; a
\* division by zero may also end the program
CallPoisonPaddingAt ==
    /\ pc = "built"
    /\ FirstCall
    /\ \E p \in BufAddrs, asan \in BOOLEAN :
        LET N == NumOffsets(elems, size_) - 1
        IN
        \/ \E regions \in (IF asan THEN PoisonOutcomes(elems, size_, N) ELSE {{}}) :
            LET done == [op |-> "PoisonPadding", p |-> p, asan |-> asan,
                         regions |-> regions]
            IN
            /\ IF asan \/ N = 0
               THEN Checked("PoisonPadding", N, p, done)
               ELSE ret' = done /\ pc' = pc
            /\ buf' = AfterPoison(buf, p, regions)
        \/ /\ asan
           /\ ZeroDivisor(elems, N)
           /\ ret' = [op |-> "abort", key |-> N, n |-> "PoisonPadding", p |-> p]
           /\ pc' = "aborted"
           /\ buf' = buf
    /\ UNCHANGED <<elems, size_, prev, cl>>

\* A client that hands a pointer to each operation taking one.
NextAssert ==
    \/ DefineNatural
    \/ Partial
    \/ CallPointerN
    \/ CallSlice
    \/ CallPointers
    \/ CallSlices
    \/ CallPoisonPaddingAt

SpecAssert == Init /\ [][NextAssert]_vars

\* A client that poisons the padding of a layout with one alignment override.
NextPoison ==
    \/ DefineOverride
    \/ Partial
    \/ CallPoisonPaddingAt

SpecPoison == Init /\ [][NextPoison]_vars

(***************************************************************************)
(* Counts large enough for size * count and the offsets to wrap in size_t: *)
(* the constructor takes any size_t and checks nothing.                    *)
(***************************************************************************)
BigCounts == {0, 3, SizeMod \div 8, SizeMod \div 4 - 1, SIZE_MAX}

WrapLists == OrderLists \cup ScenarioLists

\* using L = Layout<Ts...>
DefineWrap ==
    /\ pc = "unresolved"
    /\ \E ts \in WrapLists :
        /\ LayoutAssert(ts)
        /\ elems' = ts
    /\ pc' = "defined"
    /\ UNCHANGED <<size_, ret, prev>>
    /\ UNCHANGED client

\* L layout(n0, n1, ...) with counts up to SIZE_MAX
BuildWrap ==
    /\ pc = "defined"
    /\ \E sizes \in [1..Len(elems) -> BigCounts] : size_' = sizes
    /\ pc' = "built"
    /\ UNCHANGED <<elems, ret, prev>>
    /\ UNCHANGED client

NextWrap ==
    \/ DefineWrap
    \/ BuildWrap
    \/ CallOffsets
    \/ CallAllocSizeK

SpecWrap == Init /\ [][NextWrap]_vars

(***************************************************************************)
(* Reference notions the properties are stated with.                       *)
(***************************************************************************)
\* n is a power of two (1, 2, 4, ...)
IsPowerOfTwo(n) == \E k \in 0..(SizeBits - 1) : n = 2 ^ k

\* alignment(i): the override where present, the natural alignment otherwise
alignment(ts, i) == IF ts[i + 1].aligned THEN ts[i + 1].n ELSE ts[i + 1].align

\* size(i) * count(i): the number of bytes array i occupies
bytes(ts, sz, i) == ts[i + 1].size * sz[i + 1]

\* an element-type list all of whose alignments are powers of two
ValidList(ts) == \A i \in 0..(Len(ts) - 1) : IsPowerOfTwo(alignment(ts, i))

\* ceil(n / m) * m
CeilAlign(n, m) == ((n + m - 1) \div m) * m

\* M = min(N, K + 1)
M == IF Len(size_) + 1 < Len(elems) THEN Len(size_) + 1 ELSE Len(elems)

\* the descriptor is Partial with K < N / Full with K = N
IsPartial == pc = "built" /\ Len(size_) < Len(elems)
IsFull == pc = "built" /\ Len(size_) = Len(elems)

(***************************************************************************)
(* C1: over element-type lists with power-of-two alignments, Offsets()     *)
(* starts with 0 and every later offset is the end of the previous array   *)
(* rounded up with ceil(n/m)*m, which the bit-mask Align computes: it is   *)
(* the smallest multiple of the alignment that is >= the end, so the       *)
(* padding is smaller than the alignment.                                  *)
(***************************************************************************)
C1_OffsetRecurrence ==
    (ret.op = "Offsets" /\ ValidList(elems)) =>
        /\ ret.val[1] = 0
        /\ \A i \in 1..(Len(ret.val) - 1) :
            LET end == ret.val[i] + bytes(elems, size_, i - 1)
                a == alignment(elems, i)
            IN  /\ ret.val[i + 1] = CeilAlign(end, a)
                /\ Align(end, a) = CeilAlign(end, a)
                /\ ret.val[i + 1] % a = 0
                /\ ret.val[i + 1] >= end
                /\ ret.val[i + 1] - end < a

\* three offsets of which the third needed padding after a non-zero second
C1_Witness ==
    /\ ret.op = "Offsets"
    /\ ValidList(elems)
    /\ Len(ret.val) = 3
    /\ ret.val[2] > 0
    /\ ret.val[3] > ret.val[2] + bytes(elems, size_, 1)

(***************************************************************************)
(* C2: over valid element-type lists, every computable offset is a         *)
(* multiple of the alignment of its array (override or natural).           *)
(***************************************************************************)
C2_OffsetsAligned ==
    (ret.op = "Offsets" /\ ValidList(elems)) =>
        \A i \in 0..(Len(ret.val) - 1) : ret.val[i + 1] % alignment(elems, i) = 0

\* an array with an override starts at a non-zero multiple of the override
C2_Witness ==
    /\ ret.op = "Offsets"
    /\ ValidList(elems)
    /\ \E i \in 1..(Len(ret.val) - 1) :
        /\ elems[i + 1].aligned
        /\ ret.val[i + 1] > 0
        /\ ret.val[i + 1] % elems[i + 1].n = 0

(***************************************************************************)
(* C3: for every descriptor and all i < j < M, array j starts at or after  *)
(* the end of array i.                                                     *)
(***************************************************************************)
C3_NoOverlap ==
    ret.op = "Offsets" =>
        \A i \in 0..(Len(ret.val) - 1), j \in 0..(Len(ret.val) - 1) :
            i < j => ret.val[j + 1] >= ret.val[i + 1] + bytes(elems, size_, i)

(***************************************************************************)
(* C4: Offsets() has exactly M = min(N, K + 1) entries: K + 1 for a        *)
(* Partial descriptor with K < N, N for a Full one.                        *)
(***************************************************************************)
C4_NumOffsets ==
    ret.op = "Offsets" =>
        /\ Len(ret.val) = M
        /\ IsPartial => Len(ret.val) = Len(size_) + 1
        /\ IsFull => Len(ret.val) = Len(elems)

\* a Partial descriptor of three types with one count resolves two offsets
C4_Witness ==
    /\ ret.op = "Offsets"
    /\ Len(elems) = 3
    /\ Len(size_) = 1
    /\ Len(ret.val) = 2

(***************************************************************************)
(* C5: AllocSize() of a Full descriptor is exactly the end of the last     *)
(* array, Offset(N-1) + size(N-1) * count(N-1), with no trailing padding.  *)
(***************************************************************************)
C5_AllocSizeExact ==
    ret.op = "AllocSize" =>
        /\ IsFull
        /\ ret.val = Offsets(elems, size_)[Len(elems)]
                        + bytes(elems, size_, Len(elems) - 1)

\* a size that is no multiple of Alignment(): rounding up would change it
C5_Witness ==
    /\ ret.op = "AllocSize"
    /\ ValidList(elems)
    /\ Len(elems) = 3
    /\ ret.val % Alignment(elems) # 0

(***************************************************************************)
(* C6: Alignment() is the maximum of alignment(i) over all N entries,      *)
(* whatever the counts and K are, arrays without an offset included.       *)
(***************************************************************************)
C6_AlignmentIsMax ==
    ret.op = "Alignment" =>
        /\ \A i \in 0..(Len(elems) - 1) : alignment(elems, i) <= ret.val
        /\ \E i \in 0..(Len(elems) - 1) : alignment(elems, i) = ret.val

\* the strictest array is one whose offset the Partial descriptor cannot compute
C6_Witness ==
    /\ ret.op = "Alignment"
    /\ IsPartial
    /\ \A i \in 0..(M - 1) : alignment(elems, i) < ret.val
    /\ M < Len(elems)

(***************************************************************************)
(* C7: the offsets a descriptor computed are the offsets every descriptor  *)
(* refined from it computes for the same arrays.                           *)
(***************************************************************************)
C7_RefineKeepsOffsets ==
    (ret.op = "Offsets" /\ prev # <<>>) =>
        /\ Len(prev) <= Len(ret.val)
        /\ \A i \in 1..Len(prev) : ret.val[i] = prev[i]

\* a refined descriptor with more offsets than the two non-zero ones it had
C7_Witness ==
    /\ ret.op = "Offsets"
    /\ Len(prev) = 2
    /\ prev[2] > 0
    /\ Len(ret.val) = 3
    /\ ret.val[3] > ret.val[2]

(***************************************************************************)
(* C8: in a buffer of exactly AllocSize() bytes aligned to Alignment(),    *)
(* every element written through the pointers of a Full descriptor keeps   *)
(* the value written whatever is written to the other elements, reading it *)
(* back through the same or a rebuilt descriptor yields that value, and no *)
(* access falls outside the buffer.                                        *)
(***************************************************************************)
C8_RoundTrip ==
    (cl.kind \in {"roundtrip", "rebuilt"}) =>
        /\ ~cl.oob
        /\ \A w \in cl.written :
            Load(buf, ElemAddr(elems, cl.rsize, w.n, w.j, cl.p),
                 SizeOf(elems[w.n + 1])) = w.v
        /\ (ret.op = "Read") =>
            \E w \in cl.written : w.n = ret.n /\ w.j = ret.j /\ w.v = ret.val

\* the same round trip over the element-type lists with power-of-two alignments
RoundTripOnValidLists == ValidList(elems) => C8_RoundTrip

(***************************************************************************)
(* C9: for every nf and nd, the reader of a record written with            *)
(* Full(1, 1, nf, nd) finds through Partial(1, 1) the header fields at the *)
(* offsets the writer stored them at and reads the counts nf and nd; the   *)
(* Full descriptor it then builds gives the writer's payload pointers, and *)
(* the payload it reads is the payload the writer stored.                  *)
(***************************************************************************)
C9_SelfDescribingRecord ==
    (cl.kind = "record" /\ cl.step \in {"header", "done"}) =>
        /\ cl.rhdr[1] - cl.p = cl.wptr[1] - cl.p
        /\ cl.rhdr[2] - cl.p = cl.wptr[2] - cl.p
        /\ cl.num_floats = cl.nf
        /\ cl.num_doubles = cl.nd
        /\ (cl.step = "done") =>
            /\ cl.rptr = <<cl.wptr[3], cl.wptr[4]>>
            /\ cl.printed = <<cl.floats, cl.doubles>>

\* a record with an odd number of floats, hence padding before the doubles,
\* has been written and read back
C9_Witness ==
    /\ cl.kind = "record"
    /\ cl.step = "done"
    /\ cl.nf = 1
    /\ cl.nd = 2
    /\ cl.rptr[2] = cl.p + 24
    /\ cl.printed[2] = cl.doubles

(***************************************************************************)
(* C10: for a buffer address p aligned to Alignment() and i < M,           *)
(* Pointer<i>(p) is p + Offset(i), and Pointer<T>(p) is Pointer<i>(p) for  *)
(* the only position i whose underlying element type is T.                 *)
(***************************************************************************)
C10_PointerIsBasePlusOffset ==
    (ret.op \in {"Pointer", "PointerT"}
        /\ Alignment(elems) # 0 /\ ret.p % Alignment(elems) = 0) =>
        /\ ret.n < M
        /\ ret.val = ret.p + Offsets(elems, size_)[ret.n + 1]
        /\ ret.op = "Pointer" => ret.n = ret.key
        /\ ret.op = "PointerT" =>
            /\ elems[ret.n + 1].name = ret.key
            /\ \A j \in 0..(Len(elems) - 1) : elems[j + 1].name = ret.key => j = ret.n

\* the pointer to an array with an override, looked up by its element type
C10_Witness ==
    /\ ret.op = "PointerT"
    /\ elems[ret.n + 1].aligned
    /\ ret.n > 0
    /\ ret.val > ret.p

(***************************************************************************)
(* C11: for an aligned buffer address p and i < K, Slice<i>(p) starts at   *)
(* p + Offset(i), the address Pointer<i>(p) returns, and has count(i) =    *)
(* Size<i>() elements; for i >= K there is no view: the array at index K   *)
(* of a Partial descriptor has a pointer but Slice<K> is rejected.         *)
(***************************************************************************)
C11_SliceIsPointerAndSize ==
    /\ (ret.op = "Slice") =>
        /\ ret.n < Len(size_)
        /\ ret.val.data = ret.p + Offset(elems, size_, ret.n)
        /\ ret.val.data = ret.ptr
        /\ ret.val.size = size_[ret.n + 1]
    /\ (ret.op = "static_assert" /\ ret.call = "Slice") =>
        /\ ret.key >= Len(size_)
        /\ (ret.key = Len(size_) /\ ret.key < Len(elems)) => ret.key < M

\* a view of the second array of a descriptor with padding before it
C11_Witness ==
    /\ ret.op = "Slice"
    /\ ret.n = 1
    /\ ret.p = 8
    /\ ret.val = [data |-> 12, size |-> 1]

(***************************************************************************)
(* C12: Pointers(p) has M entries, entry i being Pointer<i>(p); Slices(p)  *)
(* has K entries, entry i being Slice<i>(p); Offsets() has M entries,      *)
(* entry i being Offset<i>(); all in array-index order.                    *)
(***************************************************************************)
C12_BatchAgreesWithSingle ==
    /\ (ret.op = "Pointers") =>
        /\ Len(ret.val) = M
        /\ \A i \in 0..(M - 1) : ret.val[i + 1] = ret.p + Offset(elems, size_, i)
    /\ (ret.op = "Slices") =>
        /\ Len(ret.val) = Len(size_)
        /\ \A i \in 0..(Len(size_) - 1) :
            /\ ret.val[i + 1].data = ret.p + Offset(elems, size_, i)
            /\ ret.val[i + 1].size = size_[i + 1]
    /\ (ret.op = "Offsets") =>
        /\ Len(ret.val) = M
        /\ \A i \in 0..(M - 1) : ret.val[i + 1] = Offset(elems, size_, i)

\* Pointers(p) of a descriptor of three arrays at distinct addresses
C12_Witness ==
    /\ ret.op = "Pointers"
    /\ Len(ret.val) = 3
    /\ ret.val[1] < ret.val[2]
    /\ ret.val[2] < ret.val[3]

(***************************************************************************)
(* C13: Offset<i> and Pointer<i> are rejected with "Index out of bounds"   *)
(* exactly for i >= M = min(N, K + 1), Size<i> and Slice<i> exactly for    *)
(* i >= K; a rejected call yields no value and a call below its bound is   *)
(* accepted.                                                               *)
(***************************************************************************)
C13_IndexOutOfBounds ==
    /\ (ret.op = "static_assert" /\ ret.call \in {"Offset", "Pointer"}) =>
        ret.key >= M /\ ret.msg = "Index out of bounds"
    /\ (ret.op = "static_assert" /\ ret.call \in {"Size", "Slice"}) =>
        ret.key >= Len(size_) /\ ret.msg = "Index out of bounds"
    /\ (ret.op = "static_assert") => "val" \notin DOMAIN ret
    /\ (ret.op \in {"Offset", "PointerN"}) => ret.n < M
    /\ (ret.op \in {"Size", "Slice"}) => ret.n < Len(size_)
    /\ (ret.op = "abort" /\ ret.n = "Pointer") => ret.key < M
    /\ (ret.op = "abort" /\ ret.n = "Slice") => ret.key < Len(size_)

\* three element types and one known count: Offset<2>() is rejected
C13_Witness ==
    /\ Len(elems) = 3
    /\ Len(size_) = 1
    /\ ret.op = "static_assert"
    /\ ret.call = "Offset"
    /\ ret.key = 2

(***************************************************************************)
(* C14: AllocSize() is rejected with "You must specify sizes of all        *)
(* fields", and yields no size, exactly when K < N; with K = N it returns  *)
(* a size, whether the descriptor came from the Layout constructor or from *)
(* Partial with all N counts.                                              *)
(***************************************************************************)
C14_AllocSizeNeedsAllCounts ==
    /\ (ret.op = "static_assert" /\ ret.call = "AllocSize") =>
        /\ Len(size_) < Len(elems)
        /\ ret.msg = "You must specify sizes of all fields"
        /\ "val" \notin DOMAIN ret
    /\ (ret.op = "AllocSize") =>
        /\ Len(size_) = Len(elems)
        /\ cl.via \in {"Layout", "Partial"}
        /\ ret.val = Offset(elems, size_, Len(elems) - 1)
                     + bytes(elems, size_, Len(elems) - 1)

\* AllocSize() of a Partial descriptor with one count of two is rejected
C14_Witness ==
    /\ Len(elems) = 2
    /\ cl = [kind |-> "built", via |-> "Partial", counts |-> <<1>>]
    /\ ret.op = "static_assert"
    /\ ret.call = "AllocSize"


(***************************************************************************)
(* C16: a lookup by element type T resolves to index i exactly when T is   *)
(* the underlying type of position i and of no other position; it is       *)
(* rejected with "Type not found" when T is absent and with "Duplicate     *)
(* element type" when T occurs more than once, wherever the duplicates     *)
(* are.  Lists with repeated types are legal, lookup by index is never     *)
(* rejected on their account, and their non-repeated types are found.      *)
(***************************************************************************)
Occurrences(T) == {i \in 0..(Len(elems) - 1) : elems[i + 1].name = T}

C16_TypeLookup ==
    /\ (ret.op \in {"ElementIndex", "OffsetT", "SizeT"}) =>
        Occurrences(ret.key) = {IF ret.op = "ElementIndex" THEN ret.val ELSE ret.n}
    /\ (ret.op = "static_assert" /\ ret.msg = "Type not found") =>
        Occurrences(ret.key) = {}
    /\ (ret.op = "static_assert" /\ ret.msg = "Duplicate element type") =>
        Cardinality(Occurrences(ret.key)) >= 2
    /\ (ret.op = "static_assert"
            /\ ret.call \in {"ElementIndex", "OffsetT", "SizeT"}) =>
        Cardinality(Occurrences(ret.key)) # 1
    /\ (ret.op = "static_assert" /\ ret.call = "Offset") => ret.key >= M
    /\ (ret.op = "static_assert" /\ ret.call = "Size") => ret.key >= Len(size_)

\* in [char, int, char] the non-repeated type int is found at index 1
C16_Witness ==
    /\ ElementTypes(elems) = <<"char", "int", "char">>
    /\ ret.op = "OffsetT"
    /\ ret.key = "int"
    /\ ret.n = 1


(***************************************************************************)
(* C17: Partial with K counts is accepted for every 0 <= K <= N and        *)
(* rejected for K > N; the descriptor holds exactly the counts given, in   *)
(* order: Size<i>() is c_i and Sizes() is (c_0, ..., c_{K-1}); the Layout  *)
(* constructor with N counts gives the counts, offsets and AllocSize that  *)
(* Partial with the same N counts gives.                                   *)
(***************************************************************************)
C17_PartialHoldsItsCounts ==
    /\ (ret.op = "static_assert" /\ ret.call = "Partial") =>
        ret.key > Len(elems) /\ pc = "rejected"
    /\ (cl.kind = "built") =>
        /\ Len(cl.counts) <= Len(elems)
        /\ size_ = cl.counts
        /\ (ret.op = "Sizes") => ret.val = cl.counts
        /\ (ret.op = "Size") => ret.val = cl.counts[ret.n + 1]
        /\ (cl.via = "Layout") =>
            /\ Len(cl.counts) = Len(elems)
            /\ (ret.op = "Offsets") => ret.val = Offsets(elems, cl.counts)
            /\ (ret.op = "AllocSize") => ret.val = AllocSize(elems, cl.counts)

\* Sizes() of a descriptor built by Partial with two different counts
C17_Witness ==
    /\ cl.kind = "built"
    /\ cl.via = "Partial"
    /\ cl.counts = <<1, 0>>
    /\ ret.op = "Sizes"
    /\ ret.val = <<1, 0>>

(***************************************************************************)
(* C15: an element type Aligned<T, A> whose override A is not a power of   *)
(* two, or is less than the natural alignment of T, is rejected when the   *)
(* layout is defined, before a descriptor can be built; an override that   *)
(* is a power of two >= the natural alignment is accepted.                 *)
(***************************************************************************)
C15_OverrideValidated ==
    (cl.kind = "override") =>
        LET valid == IsPowerOfTwo(cl.A) /\ cl.A >= cl.base[cl.i + 1].align
        IN  /\ (pc = "rejected") => ~valid
            /\ (pc \in {"defined", "built"}) => valid

(***************************************************************************)
(* C20: with entry i of the list replaced by Aligned<T, A>, the element    *)
(* size of array i stays sizeof(T), the underlying types, the lookup by    *)
(* type and the counts are those of the list without the override, the     *)
(* offsets of the arrays before i are unchanged and Offset(i) is a         *)
(* multiple of A; when A is the natural alignment of T, Offsets(),         *)
(* Alignment() and AllocSize() are those of the list without the override. *)
(***************************************************************************)
MultipleOf(n, m) == \E q \in 0..n : n = q * m

C20_OverrideChangesAlignmentOnly ==
    (cl.kind = "override" /\ pc = "built") =>
        LET base == cl.base
            natural == cl.A = base[cl.i + 1].align
        IN
        /\ SizeOf(elems[cl.i + 1]) = base[cl.i + 1].size
        /\ ElementTypes(elems) = [j \in 1..Len(base) |-> base[j].name]
        /\ \A j \in 0..(Len(base) - 1) :
            j # cl.i => AlignOf(elems[j + 1]) = base[j + 1].align
        /\ AlignOf(elems[cl.i + 1]) = cl.A
        /\ (ret.op = "Offsets") =>
            /\ \A j \in 0..(Len(ret.val) - 1) :
                j < cl.i => ret.val[j + 1] = Offset(base, size_, j)
            /\ (cl.i < Len(ret.val)) => MultipleOf(ret.val[cl.i + 1], cl.A)
            /\ (cl.i + 1 < Len(ret.val)) =>
                ret.val[cl.i + 2] >= ret.val[cl.i + 1]
                                     + base[cl.i + 1].size * size_[cl.i + 1]
            /\ natural => ret.val = Offsets(base, size_)
        /\ (ret.op = "Sizes") => ret.val = Sizes(size_)
        /\ (ret.op = "ElementIndex") => ret.val = ElementIndex(base, ret.key)
        /\ (ret.op = "static_assert" /\ ret.call = "ElementIndex") =>
            ~ElementIndexAssert(base, ret.key)
        /\ (ret.op = "Alignment") =>
            /\ natural => ret.val = Alignment(base)
            /\ ret.val = Alignment(WithOverride(base, cl.i, cl.A))
        /\ (ret.op = "AllocSize" /\ natural) => ret.val = AllocSize(base, size_)

\* [char, Aligned<char, 4>] with one char: the second array starts at 4
C20_Witness ==
    /\ cl.kind = "override"
    /\ cl.i = 1
    /\ cl.A = 4
    /\ ElementTypes(elems) = <<"char", "char">>
    /\ size_ = <<1, 1>>
    /\ ret.op = "Offsets"
    /\ ret.val = <<0, 4>>

\* [char, Aligned<int, 4>]: the override is the natural alignment of int
C20_NaturalOverride ==
    /\ cl.kind = "override"
    /\ cl.i = 1
    /\ cl.A = 4
    /\ ElementTypes(elems) = <<"char", "int">>
    /\ ret.op = "Offsets"
    /\ ret.val = <<0, 4>>

(***************************************************************************)
(* C18: whatever operations have been called on a descriptor, it holds the *)
(* counts it was constructed with and no byte of the buffer has been       *)
(* stored to; a descriptor refined from it is a new descriptor; and every  *)
(* query returns the value determined by the element types and the counts  *)
(* of the construction, whether or not DebugString or PoisonPadding were   *)
(* called before it.                                                       *)
(***************************************************************************)
C18_QueriesHaveNoEffect ==
    (cl.kind \in {"built", "frame", "refined"}) =>
        /\ size_ = cl.counts
        /\ (cl.kind = "frame") => buf = Block(cl.p, AllocSize(elems, cl.counts))
        /\ (cl.kind = "refined") =>
            /\ Len(cl.next) = Len(cl.counts) + 1
            /\ SubSeq(cl.next, 1, Len(cl.counts)) = cl.counts
        /\ (ret.op = "Offsets") => ret.val = Offsets(elems, cl.counts)
        /\ (ret.op = "Offset") => ret.val = Offset(elems, cl.counts, ret.n)
        /\ (ret.op = "Size") => ret.val = cl.counts[ret.n + 1]
        /\ (ret.op = "Sizes") => ret.val = cl.counts
        /\ (ret.op = "AllocSize") => ret.val = AllocSize(elems, cl.counts)
        /\ (ret.op = "PointerN") => ret.val = ret.p + Offset(elems, cl.counts, ret.n)
        /\ (ret.op = "Pointers") =>
            \A i \in 1..Len(ret.val) :
                ret.val[i] = ret.p + Offset(elems, cl.counts, i - 1)
        /\ (ret.op = "Slice") =>
            ret.val = [data |-> ret.p + Offset(elems, cl.counts, ret.n),
                       size |-> cl.counts[ret.n + 1]]

\* the steps of the operations leave the descriptor and the buffer alone
C18_StepsKeepDescriptorAndBuffer ==
    [][(pc = "built" /\ cl.kind = "frame") =>
        (elems' = elems /\ size_' = size_ /\ buf' = buf)]_vars

\* an ASAN build has poisoned the padding between a char and an int array and
\* the buffer still holds what it held
C18_Witness ==
    /\ cl.kind = "frame"
    /\ ret.op = "PoisonPadding"
    /\ ret.regions = {<<1, 3>>}
    /\ buf = Block(cl.p, 8)

(***************************************************************************)
(* C19: when each thread writes only the elements of its own array, in     *)
(* every interleaving no byte is stored to by two threads, a thread reads  *)
(* back from its array what it wrote, the buffer ends as it would after    *)
(* the threads ran one after the other, and a query made while the         *)
(* threads run returns what it returns sequentially.                       *)
(***************************************************************************)
C19_IndependentArrays ==
    (cl.kind = "threads") =>
        /\ \A s1 \in cl.stores, s2 \in cl.stores : s1[1] = s2[1] => s1[2] = s2[2]
        /\ (ret.op = "ThRead") => ret.val = ThreadValue(ret.n, ret.j)
        /\ (cl.written = Elements(elems, size_)) =>
            buf = FilledFrom(Block(cl.p, AllocSize(elems, size_)),
                             elems, size_, cl.p, 0)
        /\ (ret.op = "ThOffsets") => ret.val = Offsets(elems, size_)

\* the same over the element-type lists with power-of-two alignments
IndependentArraysOnValidLists == ValidList(elems) => C19_IndependentArrays

(***************************************************************************)
(* C21: for [char (1, 1), int (4, 4), double (8, 8)] and counts (3, 2, 4), *)
(* Alignment() is 8, the offsets are 0, 4 and 16, AllocSize() is 48, and   *)
(* the pointers for char, int and double are p, p + 4 and p + 16.          *)
(***************************************************************************)
ScenarioIs(ts) == pc = "built" /\ elems = ts /\ size_ = <<3, 2, 4>>

ScenarioValues(align, offsets, allocsize) ==
    /\ (ret.op = "Alignment") => ret.val = align
    /\ (ret.op = "Offset") => ret.val = offsets[ret.n + 1]
    /\ (ret.op = "AllocSize") => ret.val = allocsize
    /\ (ret.op = "PointerT") =>
        /\ ret.val = ret.p + offsets[ret.n + 1]
        /\ ret.n = CASE ret.key = "char" -> 0
                     [] ret.key = "int" -> 1
                     [] ret.key = "double" -> 2

C21_NaturalScenario ==
    ScenarioIs(<<TChar, TInt, TDouble>>) =>
        /\ <<TChar.size, TChar.align>> = <<1, 1>>
        /\ <<TInt.size, TInt.align>> = <<4, 4>>
        /\ <<TDouble.size, TDouble.align>> = <<8, 8>>
        /\ ScenarioValues(8, <<0, 4, 16>>, 48)

\* the pointer to the doubles of the natural layout has been taken
C21_Witness ==
    /\ ScenarioIs(<<TChar, TInt, TDouble>>)
    /\ ret.op = "PointerT"
    /\ ret.key = "double"
    /\ ret.val = ret.p + 16

(***************************************************************************)
(* C22: for [char, int aligned to 32, double] and counts (3, 2, 4),        *)
(* Alignment() is 32, the offsets are 0, 32 and 40, AllocSize() is 72, and *)
(* the pointers for char, int and double are p, p + 32 and p + 40.         *)
(***************************************************************************)
C22_CustomScenario ==
    ScenarioIs(<<TChar, Aligned(TInt, 32), TDouble>>) =>
        ScenarioValues(32, <<0, 32, 40>>, 72)

\* AllocSize() of the layout with the override has been computed
C22_Witness ==
    /\ ScenarioIs(<<TChar, Aligned(TInt, 32), TDouble>>)
    /\ ret.op = "AllocSize"
    /\ ret.val = 72

(***************************************************************************)
(* C23: when the element types are listed in descending order of natural   *)
(* alignment the layout has no padding: Offset(i) = Offset(i - 1) +        *)
(* size(i - 1) * count(i - 1) and AllocSize() is the sum of size * count.  *)
(* In any other order every offset is still aligned for its array and the  *)
(* arrays do not overlap, but there may be padding between them.           *)
(***************************************************************************)
Descending(ts) ==
    \A i \in 1..(Len(ts) - 1) : alignment(ts, i - 1) >= alignment(ts, i)

RECURSIVE SumBytes(_, _, _)
SumBytes(ts, sz, n) == IF n = 0 THEN 0 ELSE SumBytes(ts, sz, n - 1) + bytes(ts, sz, n - 1)

C23_DescendingHasNoPadding ==
    (pc = "built" /\ \A i \in 1..Len(elems) : ~elems[i].aligned) =>
        /\ (ret.op = "Offsets") =>
            \A i \in 1..(Len(ret.val) - 1) :
                /\ ret.val[i + 1] % alignment(elems, i) = 0
                /\ ret.val[i + 1] >= ret.val[i] + bytes(elems, size_, i - 1)
                /\ Descending(elems) =>
                    ret.val[i + 1] = ret.val[i] + bytes(elems, size_, i - 1)
        /\ (ret.op = "AllocSize") =>
            /\ ret.val >= SumBytes(elems, size_, Len(elems))
            /\ Descending(elems) => ret.val = SumBytes(elems, size_, Len(elems))

\* double, int, char with one, two and one elements: 8 + 8 + 1 bytes
C23_Witness ==
    /\ pc = "built"
    /\ elems = <<TDouble, TInt, TChar>>
    /\ size_ = <<1, 2, 1>>
    /\ ret.op = "AllocSize"
    /\ ret.val = 17

(***************************************************************************)
(* C24: with assertions enabled every operation that takes a buffer        *)
(* pointer (Pointer, Pointers, Slice, Slices, PoisonPadding) checks that p *)
(* is aligned to Alignment(): for every descriptor, K = 0 included, a call *)
(* with p % Alignment() # 0 fails the assertion before anything is         *)
(* returned, and a call with p % Alignment() = 0 never fails it.           *)
(***************************************************************************)
PointerTaking == {"PointerN", "Slice", "Pointers", "Slices", "PoisonPadding"}

C24_CheckedWherePointerIsEvaluated ==
    /\ (pc = "built" /\ ret.op \in PointerTaking
        /\ ~(ret.op = "Slices" /\ NumSizes(size_) = 0)
        /\ ~(ret.op = "PoisonPadding" /\ ~ret.asan /\ NumOffsets(elems, size_) > 1)) =>
        ret.p % Alignment(elems) = 0
    /\ (pc = "aborted") => ret.p % Alignment(elems) # 0

(***************************************************************************)
(* C25: with the memory-debugging mode enabled PoisonPadding(p) poisons    *)
(* every padding byte: for every legal element-type list, with or without  *)
(* alignment overrides, all counts and every i in 1..M-1, every byte of    *)
(* [Offset(i-1) + size(i-1) * count(i-1), Offset(i)) is poisoned, so the   *)
(* gap before array i is empty whenever alignment(i-1) is a multiple of    *)
(* alignment(i) and the code skips it.                                     *)
(***************************************************************************)
Poisoned(regions) == UNION {Range(r[1], r[2]) : r \in regions}

Padding(ts, sz, i) ==
    {a \in 0..Offset(ts, sz, i) : a >= Offset(ts, sz, i - 1) + bytes(ts, sz, i - 1)}
    \ {Offset(ts, sz, i)}

Poisons == pc = "built" /\ ret.op = "PoisonPadding" /\ ret.asan /\ ValidList(elems)

C25_EveryPaddingByteIsPoisoned ==
    Poisons =>
        \A i \in 1..(M - 1) :
            /\ Padding(elems, size_, i) \subseteq Poisoned(ret.regions)
            /\ MultipleOf(alignment(elems, i - 1), alignment(elems, i)) =>
                Padding(elems, size_, i) = {}

\* the part of C25 the code keeps: without overrides every padding byte is
\* poisoned and a skipped gap is empty; with overrides nothing but padding is
C25_NaturalPaddingIsPoisoned ==
    Poisons =>
        \A i \in 1..(M - 1) :
            /\ (\A e \in 1..Len(elems) : ~elems[e].aligned) =>
                /\ Padding(elems, size_, i) \subseteq Poisoned(ret.regions)
                /\ MultipleOf(alignment(elems, i - 1), alignment(elems, i)) =>
                    Padding(elems, size_, i) = {}
            /\ Poisoned(ret.regions) \subseteq
                UNION {Padding(elems, size_, j) : j \in 1..(M - 1)}

(***************************************************************************)
(* C26: DebugString() renders one field per array with a computable        *)
(* offset, M fields in index order separated by "; ", each in the format   *)
(* @offset<type>(elemSize)[count] with the offset, element size and count  *)
(* of that array, [count] being left out only for the last field when its  *)
(* count is unknown.                                                       *)
(***************************************************************************)
RECURSIVE Concat(_)
Concat(pieces) == IF pieces = <<>> THEN "" ELSE Head(pieces) \o Concat(Tail(pieces))

Field(ts, sz, i) ==
    "@" \o ToString(Offset(ts, sz, i)) \o "<" \o ts[i + 1].name \o ">("
    \o ToString(ts[i + 1].size) \o ")"
    \o (IF i < Len(sz) THEN "[" \o ToString(sz[i + 1]) \o "]" ELSE "")

RECURSIVE Rendering(_, _, _)
Rendering(ts, sz, m) ==
    IF m = 1 THEN Field(ts, sz, 0)
    ELSE Rendering(ts, sz, m - 1) \o "; " \o Field(ts, sz, m - 1)

C26_DebugStringFormat ==
    (pc = "built" /\ ret.op = "DebugString") =>
        Concat(ret.val) = Rendering(elems, size_, M)

\* the part of C26 the code keeps: the first field is rendered as claimed and
\* a descriptor with one computable offset is rendered in full
C26_FirstField ==
    (pc = "built" /\ ret.op = "DebugString") =>
        /\ Concat(SubSeq(ret.val, 1, 7)) = Field(elems, <<>>, 0)
        /\ (M = 1) => Concat(ret.val) = Rendering(elems, size_, M)

(***************************************************************************)
(* C27: every array lies inside the allocation: for a Full descriptor and  *)
(* every i < N, Offset(i) + size(i) * count(i) <= AllocSize(); for a       *)
(* Partial descriptor whose counts are a prefix of a Full descriptor's     *)
(* counts, every computable Offset(i) <= AllocSize() of the Full one.      *)
(***************************************************************************)
InsideAllocation ==
    /\ (ret.op = "AllocSize") =>
        \A i \in 0..(Len(elems) - 1) :
            Offset(elems, size_, i) + bytes(elems, size_, i) <= ret.val
    /\ (ret.op = "Offsets" /\ IsPartial) =>
        \A rest \in CountLists(Len(elems) - Len(size_)) :
            \A i \in 1..Len(ret.val) :
                ret.val[i] <= AllocSize(elems, size_ \o rest)

C27_ArraysInsideAllocation == (pc = "built") => InsideAllocation

\* the part of C27 the code keeps: it holds when every alignment is a power
\* of two
C27_InsideOnValidLists == (pc = "built" /\ ValidList(elems)) => InsideAllocation

(***************************************************************************)
(* C28: every pointer handed out is aligned for its own array: every       *)
(* alignment(i) is a power of two that divides Alignment(), so for every   *)
(* descriptor, every p with p % Alignment() = 0 and every i < M,           *)
(* (p + Offset(i)) % alignment(i) = 0, and likewise for the start of every *)
(* view returned by Slice and Slices.                                      *)
(***************************************************************************)
AlignedFor(a, i) ==
    /\ IsPowerOfTwo(alignment(elems, i))
    /\ MultipleOf(Alignment(elems), alignment(elems, i))
    /\ a % alignment(elems, i) = 0

\* the calls that returned were made with p % Alignment() = 0
PointersAligned ==
    /\ (ret.op = "Pointers") =>
        \A i \in 0..(M - 1) : AlignedFor(ret.val[i + 1], i)
    /\ (ret.op = "Slice") => AlignedFor(ret.val.data, ret.n)
    /\ (ret.op = "Slices") =>
        \A i \in 0..(Len(size_) - 1) : AlignedFor(ret.val[i + 1].data, i)

C28_PointersAlignedForTheirArray == (pc = "built") => PointersAligned

\* the part of C28 the code keeps: it holds when every alignment is a power
\* of two
C28_AlignedOnValidLists == (pc = "built" /\ ValidList(elems)) => PointersAligned

(***************************************************************************)
(* C29: offsets are computed in w-bit unsigned arithmetic that wraps       *)
(* modulo 2^w, with no overflow check on the counts.  Whenever the         *)
(* unbounded value of Offset(N-1) + size(N-1) * count(N-1) + Alignment()   *)
(* - 1 is below 2^w, every computed Offset(i) and AllocSize() equals its   *)
(* unbounded value (so AllocSize() >= the sum of size(i) * count(i)); and  *)
(* for all counts, wrapping ones included, every computed Offset(i) is a   *)
(* multiple of alignment(i).                                               *)
(***************************************************************************)
RECURSIVE MathOffset(_, _, _)
MathOffset(ts, sz, i) ==
    IF i = 0 THEN 0
    ELSE CeilAlign(MathOffset(ts, sz, i - 1) + bytes(ts, sz, i - 1), alignment(ts, i))

MathAllocSize(ts, sz) == MathOffset(ts, sz, Len(ts) - 1) + bytes(ts, sz, Len(ts) - 1)

NoOverflow == MathAllocSize(elems, size_) + Alignment(elems) - 1 < 2 ^ SizeBits

C29_WrapKeepsAlignment ==
    (pc = "built" /\ IsFull) =>
        /\ (ret.op = "Offsets") =>
            \A i \in 0..(Len(ret.val) - 1) :
                /\ ret.val[i + 1] % alignment(elems, i) = 0
                /\ NoOverflow => ret.val[i + 1] = MathOffset(elems, size_, i)
        /\ (ret.op = "AllocSize" /\ NoOverflow) =>
            /\ ret.val = MathAllocSize(elems, size_)
            /\ ret.val >= SumBytes(elems, size_, Len(elems))

\* counts that wrap: a computed offset differs from its unbounded value
C29_Witness ==
    /\ pc = "built"
    /\ IsFull
    /\ ret.op = "Offsets"
    /\ ~NoOverflow
    /\ \E i \in 0..(Len(ret.val) - 1) :
        /\ ret.val[i + 1] # MathOffset(elems, size_, i)
        /\ alignment(elems, i) > 1
        /\ ret.val[i + 1] % alignment(elems, i) = 0

====
